---- MODULE Spec2Model ----
(***************************************************************************)
(* TaskScheduler of python_backend/app/core/scheduler.py: the registry     *)
(* (self.tasks), the lifecycle flag and handle (self.running,              *)
(* self.task_loop), the scheduler-loop tasks created by start(), and the   *)
(* run_task coroutines in flight.                                          *)
(*                                                                         *)
(* Time is counted in minutes: interval_minutes is a number of minutes and *)
(* asyncio.sleep(60) is one minute.  One step of a coroutine is the code   *)
(* it runs between two suspension points (asyncio runs it atomically).     *)
(* Job functions are opaque: an execution in flight returns, raises an     *)
(* Exception, or is suspended when a cancellation reaches it; a            *)
(* CancelledError (a BaseException) passes through the job and through the *)
(* handler of line 103 to the handler of line 108.                         *)
(***************************************************************************)
EXTENDS Integers, Sequences, FiniteSets, TLC

\* ---------------------------------------------------------------- bounds
Names == {"a", "b"}
MaxTime == 1
MaxInterval == 2
MaxEntries == 2
MaxCalls == 1

\* ------------------------------------------------------ program constants
\* await asyncio.sleep(60): the polling quantum, in minutes
SleepMinutes == 1
\* "last_run": None
NoTime == -1
\* self.task_loop = None
NoLoop == 0

VARIABLES
    clock,      \* datetime.now(), in minutes
    running,    \* self.running
    task_loop,  \* self.task_loop: NoLoop, or 1: the task created last, loops[1]
    tasks,      \* self.tasks: the dict's entries in insertion order (a deleted entry leaves a hole)
    loops,      \* the _scheduler_loop tasks: the one created last, then the older unfinished ones
    calls,      \* the run_task coroutines awaiting their job function
    ret         \* what the run_task call that returned last returned to its caller

vars == <<clock, running, task_loop, tasks, loops, calls, ret>>

Intervals == 0..MaxInterval

\* ------------------------------------------------------------ the registry
\* A hole left in the dict's entry array by del self.tasks[name].
Hole == [name |-> "", interval |-> 0, last_run |-> NoTime, next_run |-> 0,
         disp |-> NoTime, live |-> FALSE]

\* The value add_task stores: last_run None, next_run = datetime.now().
\* disp is history: the time of the entry's latest scheduled dispatch.
NewTask(name, interval, now) ==
    [name |-> name, interval |-> interval, last_run |-> NoTime, next_run |-> now,
     disp |-> NoTime, live |-> TRUE]

Live(ts) == {i \in DOMAIN ts : ts[i].live}

\* len(self.tasks): the dict's ma_used
Used(ts) == Cardinality(Live(ts))

\* name in self.tasks: the index of the entry under the key, or 0
Find(ts, name) ==
    IF \E i \in Live(ts) : ts[i].name = name
    THEN CHOOSE i \in Live(ts) : ts[i].name = name
    ELSE 0

Registered(ts) == {ts[i].name : i \in Live(ts)}

\* A coroutine's local variable `task` refers to the dict object it fetched. ref is
\* the index of the entry that still holds that object, and 0 once the entry was
\* deleted or given a new object: writes through the reference then reach no entry.
\* A reference that follows the key instead of the dict object.
Drop_Keeps(ref, i) == ref

Drop(ref, i) == IF ref = i THEN 0 ELSE ref

DropLoops(ls, i) == [k \in DOMAIN ls |-> [ls[k] EXCEPT !.ref = Drop(ls[k].ref, i)]]

DropCalls(cs, i) == [c \in DOMAIN cs |-> [cs[c] EXCEPT !.ref = Drop(cs[c].ref, i)]]

\* Bookkeeping without the assignment of next_run.
Bookkeeping_LastRunOnly(ts, ref, lr) ==
    IF ref = 0 THEN ts
    ELSE [ts EXCEPT ![ref].last_run = lr]

\* task["last_run"] = lr; task["next_run"] = lr + timedelta(minutes=task["interval_minutes"])
Bookkeeping(ts, ref, lr) ==
    IF ref = 0 THEN ts
    ELSE [ts EXCEPT ![ref].last_run = lr, ![ref].next_run = lr + ts[ref].interval]

\* ------------------------------------------------- iteration over the dict
\* iter(self.tasks.items()): di_used, di_pos and len of CPython's dict iterator.
NewIter(ts) == [used |-> Used(ts), pos |-> 0, len |-> Used(ts)]

NoIter == [used |-> 0, pos |-> 0, len |-> 0]

\* An iterator that also produces the deleted entries.
NextLive_Holes(ts, pos) == IF pos < Len(ts) THEN pos + 1 ELSE 0

NextLive(ts, pos) ==
    IF \E i \in Live(ts) : i > pos
    THEN CHOOSE i \in Live(ts) : i > pos /\ \A j \in Live(ts) : j > pos => i <= j
    ELSE 0

\* next() on the iterator: RuntimeError when the dict changed size, or when an entry
\* is found after len entries were already produced; else the next live entry.
DictNext(ts, it) ==
    IF it.used # Used(ts) THEN [kind |-> "error", idx |-> 0, it |-> it]
    ELSE IF NextLive(ts, it.pos) = 0 THEN [kind |-> "stop", idx |-> 0, it |-> it]
    ELSE IF it.len = 0 THEN [kind |-> "error", idx |-> 0, it |-> it]
    ELSE [kind |-> "item", idx |-> NextLive(ts, it.pos),
          it |-> [used |-> it.used, pos |-> NextLive(ts, it.pos), len |-> it.len - 1]]

\* The test of line 96 with < in place of <=.
Due_Strict(task, now) == task.next_run < now

\* if task["next_run"] <= now
Due(task, now) == task.next_run <= now

\* The for loop of line 95, from the iterator's position to the next entry that is
\* due (its function is then awaited), the end of the dict, or a RuntimeError.
RECURSIVE ScanFrom(_, _, _)
ScanFrom(ts, it, now) ==
    LET r == DictNext(ts, it) IN
    IF r.kind = "item" /\ ~Due(ts[r.idx], now) THEN ScanFrom(ts, r.it, now) ELSE r

\* ---------------------------------------------------------- the loop tasks
\* pc: "start" (created, not yet run), "await" (line 99), "sleep" (line 107),
\*     "cancelled" (line 108), "error" (line 110), "exited" (while self.running is false)
\* cancel: "none", "must_cancel" (cancel() called by the code the task is running),
\*     "thrown" (cancel() called while the task was suspended)
\* err: the exception the handler of line 110 caught
\* ran, failed are history: the names dispatched in the current tick, in order, and
\*     those whose function raised. A task that sleeps or has ended keeps only what
\*     the code can still read of it (after a cancellation, name: the job it was in).
NewLoop ==
    [pc |-> "start", now |-> 0, it |-> NoIter, name |-> "", ref |-> 0,
     cancel |-> "none", wake |-> 0, err |-> "none", ran |-> <<>>, failed |-> {}]

Alive == {"start", "await", "sleep"}

Without(s, c) == [i \in 1..(Len(s) - 1) |-> IF i < c THEN s[i] ELSE s[i + 1]]

\* Loop task k of ls has finished as `rec`. The task self.task_loop refers to stays
\* readable through the handle; any other finished task is no longer part of the state.
Finish(ls, k, rec) == IF k = 1 THEN [ls EXCEPT ![1] = rec] ELSE Without(ls, k)

\* Whether loop task record rec has nothing left to run but the handler of line 108.
Over(rec) == rec.pc \notin Alive \/ rec.cancel = "thrown"

\* The handler of line 110 (except Exception): the loop task ends.
OnLoopError(e) == [NewLoop EXCEPT !.pc = "error", !.err = e]

\* The loop task l after the scan result r on registry ts at time t.
AfterScan(l, ts, r, t) ==
    IF r.kind = "item"
    THEN [l EXCEPT !.pc = "await", !.it = r.it, !.name = ts[r.idx].name, !.ref = r.idx,
                   !.ran = Append(l.ran, ts[r.idx].name)]
    ELSE IF r.kind = "stop"
    THEN [NewLoop EXCEPT !.pc = "sleep", !.wake = t + SleepMinutes,
                         !.cancel = IF l.cancel = "none" THEN "none" ELSE "thrown"]
    ELSE OnLoopError("RuntimeError")

\* The registry after the scan: the dispatched entry's dispatch time is noted.
NoteDispatch(ts, r, t) ==
    IF r.kind = "item" THEN [ts EXCEPT ![r.idx].disp = t] ELSE ts

\* asyncio runs one task at a time. A task whose cancellation is "must_cancel" is in
\* the middle of a step (in the code of the job it awaits): until it suspends, only
\* that code acts. Yields(k): every task but k is suspended.
Yields(k) == \A j \in DOMAIN loops : j # k => loops[j].cancel # "must_cancel"

\* Loop task k of ls goes on as `rec`, or has finished as `rec`.
Step(ls, k, rec) ==
    IF Over(rec) /\ k # 1 THEN Without(ls, k)
    ELSE [ls EXCEPT ![k] = rec]

\* One pass of `while self.running:` from its test to the first suspension.
Tick(k) ==
    IF ~running
    THEN /\ loops' = Finish(loops, k, [NewLoop EXCEPT !.pc = "exited"])
         /\ UNCHANGED tasks
    ELSE LET l == [loops[k] EXCEPT !.now = clock, !.wake = 0, !.ran = <<>>, !.failed = {}]
             r == ScanFrom(tasks, NewIter(tasks), clock)
         IN /\ loops' = Step(loops, k, AfterScan(l, tasks, r, clock))
            /\ tasks' = NoteDispatch(tasks, r, clock)

\* The task's first step.
LoopBegin(k) ==
    /\ Yields(k)
    /\ loops[k].pc = "start"
    /\ loops[k].cancel = "none"
    /\ Tick(k)
    /\ UNCHANGED <<clock, running, task_loop, calls, ret>>

\* asyncio.sleep(60) is over.
LoopWake(k) ==
    /\ Yields(k)
    /\ loops[k].pc = "sleep"
    /\ loops[k].cancel = "none"
    /\ clock >= loops[k].wake
    /\ Tick(k)
    /\ UNCHANGED <<clock, running, task_loop, calls, ret>>

\* Continue with a for loop that ends after the first job it has run.
Continue_Breaks(k, l, ts) ==
    /\ loops' = Step(loops, k, AfterScan(l, ts, [kind |-> "stop", idx |-> 0, it |-> l.it], clock))
    /\ tasks' = ts

\* Lines 100-102, then the for loop goes on.
Continue(k, l, ts) ==
    LET r == ScanFrom(ts, l.it, l.now) IN
    /\ loops' = Step(loops, k, AfterScan(l, ts, r, clock))
    /\ tasks' = NoteDispatch(ts, r, clock)

\* The awaited job function returned.
JobReturn(k) ==
    /\ Yields(k)
    /\ loops[k].pc = "await"
    /\ loops[k].cancel # "thrown"
    /\ Continue(k, loops[k], Bookkeeping(tasks, loops[k].ref, loops[k].now))
    /\ UNCHANGED <<clock, running, task_loop, calls, ret>>

\* OnJobError without the try of line 97: the exception reaches the handler of line
\* 110 and the loop task ends.
OnJobError_Propagates(k, l) ==
    /\ loops' = Finish(loops, k, OnLoopError("Exception"))
    /\ UNCHANGED tasks

\* The handler of line 103: the error is logged.
OnJobError(k, l) == Continue(k, [l EXCEPT !.failed = l.failed \cup {l.name}], tasks)

\* The awaited job function raised an Exception.
JobRaise(k) ==
    /\ Yields(k)
    /\ loops[k].pc = "await"
    /\ loops[k].cancel # "thrown"
    /\ OnJobError(k, loops[k])
    /\ UNCHANGED <<clock, running, task_loop, calls, ret>>

\* CancelledError is thrown into the task at its suspension point: where it is
\* suspended ("thrown"), or where the job it is running suspends next ("must_cancel";
\* a task that reaches asyncio.sleep with "must_cancel" is suspended there: AfterScan).
LoopCancelled(k) ==
    /\ Yields(k)
    /\ loops[k].cancel # "none"
    /\ loops' = Finish(loops, k, [NewLoop EXCEPT !.pc = "cancelled", !.name = loops[k].name])
    /\ UNCHANGED <<clock, running, task_loop, tasks, calls, ret>>

\* ------------------------------------------------------------- lifecycle
\* The tasks that are still part of the state when start() overwrites self.task_loop:
\* those that are in the middle of a step. (A finished task is garbage, and a
\* suspended task with CancelledError thrown into it has nothing left to do but to
\* log in the handler of line 108.)
Kept(ls) == SelectSeq(ls, LAMBDA l : l.pc \in Alive /\ l.cancel = "must_cancel")

\* start that creates the loop task only when no handle is kept yet.
start_NoRespawn ==
    /\ IF ~running
       THEN /\ running' = TRUE
            /\ IF task_loop = NoLoop
               THEN loops' = <<NewLoop>> \o Kept(loops) /\ task_loop' = 1
               ELSE UNCHANGED <<loops, task_loop>>
       ELSE UNCHANGED <<running, loops, task_loop>>
    /\ UNCHANGED <<clock, tasks, calls, ret>>

\* start without the test of line 26: a loop task is created on every call.
start_Respawns ==
    /\ running' = TRUE
    /\ loops' = <<NewLoop>> \o Kept(loops)
    /\ task_loop' = 1
    /\ UNCHANGED <<clock, tasks, calls, ret>>

start ==
    /\ IF ~running
       THEN /\ running' = TRUE
            /\ loops' = <<NewLoop>> \o Kept(loops)
            /\ task_loop' = 1
       ELSE UNCHANGED <<running, loops, task_loop>>
    /\ UNCHANGED <<clock, tasks, calls, ret>>

\* Task.cancel() on loop task k, called by the job that loop task `by` is running
\* (by = 0: by any other code). A suspended task resumes with CancelledError and runs
\* nothing but the handler of line 108: of its state only pc and name still matter.
Cancel(ls, k, by) ==
    IF ls[k].pc \notin Alive THEN ls
    ELSE IF by = k THEN [ls EXCEPT ![k].cancel = "must_cancel"]
    ELSE [ls EXCEPT ![k] = [NewLoop EXCEPT !.pc = ls[k].pc, !.name = ls[k].name,
                                          !.cancel = "thrown"]]

\* stop that drops the handle when the scheduler is not running.
stop_ClearsHandle(by) ==
    /\ by \in {0} \cup {k \in DOMAIN loops : loops[k].pc = "await" /\ loops[k].cancel # "thrown"}
    /\ Yields(by)
    /\ IF running
       THEN /\ running' = FALSE
            /\ loops' = IF task_loop # NoLoop THEN Cancel(loops, task_loop, by) ELSE loops
            /\ UNCHANGED task_loop
       ELSE /\ task_loop' = NoLoop
            /\ UNCHANGED <<running, loops>>
    /\ UNCHANGED <<clock, tasks, calls, ret>>

\* stop that also empties the registry.
stop_ClearsRegistry(by) ==
    /\ by \in {0} \cup {k \in DOMAIN loops : loops[k].pc = "await" /\ loops[k].cancel # "thrown"}
    /\ Yields(by)
    /\ IF running
       THEN /\ running' = FALSE
            /\ loops' = IF task_loop # NoLoop THEN Cancel(loops, task_loop, by) ELSE loops
            /\ tasks' = [i \in DOMAIN tasks |-> Hole]
       ELSE UNCHANGED <<running, loops, tasks>>
    /\ UNCHANGED <<clock, task_loop, calls, ret>>

stop(by) ==
    /\ by \in {0} \cup {k \in DOMAIN loops : loops[k].pc = "await" /\ loops[k].cancel # "thrown"}
    /\ Yields(by)
    /\ IF running
       THEN /\ running' = FALSE
            /\ loops' = IF task_loop # NoLoop THEN Cancel(loops, task_loop, by) ELSE loops
       ELSE UNCHANGED <<running, loops>>
    /\ UNCHANGED <<clock, task_loop, tasks, calls, ret>>

\* --------------------------------------------------------- add and remove
add_task(name, interval_minutes) ==
    /\ IF Find(tasks, name) # 0
       THEN /\ tasks' = [tasks EXCEPT ![Find(tasks, name)] = NewTask(name, interval_minutes, clock)]
            /\ loops' = DropLoops(loops, Find(tasks, name))
            /\ calls' = DropCalls(calls, Find(tasks, name))
       ELSE /\ Len(tasks) < MaxEntries
            /\ tasks' = Append(tasks, NewTask(name, interval_minutes, clock))
            /\ UNCHANGED <<loops, calls>>
    /\ UNCHANGED <<clock, running, task_loop, ret>>

\* remove_task that, for a name that is not registered, removes the entry inserted
\* last (self.tasks.popitem()).
remove_task_PopsLast(name) ==
    /\ IF Find(tasks, name) # 0
       THEN /\ tasks' = [tasks EXCEPT ![Find(tasks, name)] = Hole]
            /\ loops' = DropLoops(loops, Find(tasks, name))
            /\ calls' = DropCalls(calls, Find(tasks, name))
       ELSE IF Live(tasks) # {}
       THEN LET last == CHOOSE i \in Live(tasks) : \A j \in Live(tasks) : j <= i IN
            /\ tasks' = [tasks EXCEPT ![last] = Hole]
            /\ loops' = DropLoops(loops, last)
            /\ calls' = DropCalls(calls, last)
       ELSE UNCHANGED <<tasks, loops, calls>>
    /\ UNCHANGED <<clock, running, task_loop, ret>>

remove_task(name) ==
    /\ IF Find(tasks, name) # 0
       THEN /\ tasks' = [tasks EXCEPT ![Find(tasks, name)] = Hole]
            /\ loops' = DropLoops(loops, Find(tasks, name))
            /\ calls' = DropCalls(calls, Find(tasks, name))
       ELSE UNCHANGED <<tasks, loops, calls>>
    /\ UNCHANGED <<clock, running, task_loop, ret>>

\* ---------------------------------------------------------------- run_task
\* ret: "unset" (no call has returned yet), "None" (the implicit return of an unknown
\* name), "result" (line 83: the function's result), "error" (line 86: the dict
\* {"error": str(e)}).
\* run_task that reports an unknown name as an error dict.
run_task_ReportsUnknown(name) ==
    /\ Yields(0)
    /\ Len(calls) < MaxCalls
    /\ IF Find(tasks, name) # 0
       THEN calls' = Append(calls, [ref |-> Find(tasks, name)]) /\ UNCHANGED ret
       ELSE UNCHANGED calls /\ ret' = "error"
    /\ UNCHANGED <<clock, running, task_loop, tasks, loops>>

\* run_task(name) up to its await of line 79; an unknown name returns None at once.
run_task(name) ==
    /\ Yields(0)
    /\ Len(calls) < MaxCalls
    /\ IF Find(tasks, name) # 0
       THEN calls' = Append(calls, [ref |-> Find(tasks, name)]) /\ UNCHANGED ret
       ELSE UNCHANGED calls /\ ret' = "None"
    /\ UNCHANGED <<clock, running, task_loop, tasks, loops>>

\* run_task without the return of line 83: the caller receives None.
run_task_return_NoResult(c) ==
    /\ Yields(0)
    /\ tasks' = Bookkeeping(tasks, calls[c].ref, clock)
    /\ ret' = "None"
    /\ calls' = Without(calls, c)
    /\ UNCHANGED <<clock, running, task_loop, loops>>

\* Lines 80-83: the function returned; its result is returned.
run_task_return(c) ==
    /\ Yields(0)
    /\ tasks' = Bookkeeping(tasks, calls[c].ref, clock)
    /\ ret' = "result"
    /\ calls' = Without(calls, c)
    /\ UNCHANGED <<clock, running, task_loop, loops>>

\* The handler of line 84: the function raised; the registry is left as it is and
\* {"error": str(e)} is returned.
OnRunTaskError(c) == UNCHANGED tasks /\ ret' = "error"

run_task_raise(c) ==
    /\ Yields(0)
    /\ OnRunTaskError(c)
    /\ calls' = Without(calls, c)
    /\ UNCHANGED <<clock, running, task_loop, loops>>

\* ------------------------------------------------------------------- time
Advance ==
    /\ clock < MaxTime
    /\ clock' = clock + 1
    /\ UNCHANGED <<running, task_loop, tasks, loops, calls, ret>>

\* ---------------------------------------------------------- specification
Init ==
    /\ clock = 0
    /\ running = FALSE
    /\ task_loop = NoLoop
    /\ tasks = <<>>
    /\ loops = <<>>
    /\ calls = <<>>
    /\ ret = "unset"

Next ==
    \/ start
    \/ \E by \in {0} \cup DOMAIN loops : stop(by)
    \/ \E n \in Names, i \in Intervals : add_task(n, i)
    \/ \E n \in Names : remove_task(n)
    \/ \E n \in Names : run_task(n)
    \/ \E c \in DOMAIN calls : run_task_return(c)
    \/ \E c \in DOMAIN calls : run_task_raise(c)
    \/ \E k \in DOMAIN loops : LoopBegin(k)
    \/ \E k \in DOMAIN loops : LoopWake(k)
    \/ \E k \in DOMAIN loops : JobReturn(k)
    \/ \E k \in DOMAIN loops : JobRaise(k)
    \/ \E k \in DOMAIN loops : LoopCancelled(k)
    \/ Advance

Spec == Init /\ [][Next]_vars

\* The scheduler with no run-now calls.
NextScheduled ==
    \/ start
    \/ \E by \in {0} \cup DOMAIN loops : stop(by)
    \/ \E n \in Names, i \in Intervals : add_task(n, i)
    \/ \E n \in Names : remove_task(n)
    \/ \E k \in DOMAIN loops : LoopBegin(k)
    \/ \E k \in DOMAIN loops : LoopWake(k)
    \/ \E k \in DOMAIN loops : JobReturn(k)
    \/ \E k \in DOMAIN loops : JobRaise(k)
    \/ \E k \in DOMAIN loops : LoopCancelled(k)
    \/ Advance

SpecScheduled == Init /\ [][NextScheduled]_vars

\* The scheduler after a run and a stop(): job "a" was registered at time 0, ran once
\* in the tick of time 0, and the loop task ended by the cancellation of stop().
InitStopped ==
    /\ clock = 0
    /\ running = FALSE
    /\ task_loop = 1
    /\ \E i \in Intervals :
          tasks = <<[NewTask("a", i, 0) EXCEPT !.last_run = 0, !.next_run = i, !.disp = 0]>>
    /\ loops = <<[NewLoop EXCEPT !.pc = "cancelled"]>>
    /\ calls = <<>>
    /\ ret = "unset"

SpecRestart == InitStopped /\ [][Next]_vars

\* ------------------------------------------------------------------ claims
Range(s) == {s[i] : i \in DOMAIN s}

\* A step of loop task k that starts the execution of a job.
Dispatches(k) ==
    /\ LoopBegin(k) \/ LoopWake(k) \/ JobReturn(k) \/ JobRaise(k)
    /\ k \in DOMAIN loops'
    /\ loops'[k].pc = "await"

\* A step of loop task k that ends a tick: the for loop is over and the task sleeps.
EndsTick(k) ==
    /\ JobReturn(k) \/ JobRaise(k)
    /\ k \in DOMAIN loops'
    /\ loops'[k].pc = "sleep"

\* C1: an exception raised by a job in a scheduled dispatch never reaches the
\* handler that ends the loop task (line 110), and the tick goes on: when the tick
\* ends, every registered job that was due before the tick's time has been
\* dispatched in it, whether or not an earlier job of the tick failed.
C1_FailureContained ==
    /\ [](\A k \in DOMAIN loops : loops[k].pc = "error" => loops[k].err = "RuntimeError")
    /\ [][\A k \in DOMAIN loops : EndsTick(k) =>
            \A i \in Live(tasks') :
                tasks'[i].next_run < loops[k].now => tasks'[i].name \in Range(loops[k].ran)]_vars

\* C1 witness: a job has failed in the tick and a job after it is being executed.
C1_Witness ==
    \E k \in DOMAIN loops :
        /\ loops[k].pc = "await"
        /\ loops[k].failed # {}
        /\ loops[k].name \notin loops[k].failed

\* C2: when the function of a scheduled dispatch of a job (of positive interval)
\* raises, the job's last_run and
\* next_run are advanced as on success: last_run = now, next_run = now + interval.
C2_FailedRunRescheduled ==
    [][\A k \in DOMAIN loops :
          (JobRaise(k) /\ loops[k].ref # 0 /\ tasks[loops[k].ref].interval > 0) =>
          /\ tasks'[loops[k].ref].last_run = loops[k].now
          /\ tasks'[loops[k].ref].next_run = loops[k].now + tasks[loops[k].ref].interval]_vars

\* C3: whatever add_task and remove_task calls are made, and whenever, a scheduler
\* that is marked running has a live loop task.
C3_RunningHasLiveLoop ==
    running => (task_loop # NoLoop /\ loops[1].pc \in Alive)

\* C4: with an interval longer than the polling quantum and no run-now calls, two
\* consecutive scheduled dispatches of a job are at least its interval apart.
C4_AtLeastIntervalApart ==
    [][\A i \in DOMAIN tasks :
          ( /\ i \in DOMAIN tasks'
            /\ tasks[i].live /\ tasks'[i].live
            /\ tasks[i].interval > SleepMinutes
            /\ tasks[i].disp # NoTime /\ tasks'[i].disp # NoTime
            /\ tasks'[i].disp # tasks[i].disp )
          => tasks'[i].disp - tasks[i].disp >= tasks[i].interval]_vars

\* C5: when a run-now of a registered job (of positive interval) completes at time
\* T, the job's next_run is T + interval.
C5_RunNowResetsNextRun ==
    [][\A c \in DOMAIN calls :
          ( /\ run_task_return(c) \/ run_task_raise(c)
            /\ calls[c].ref # 0
            /\ tasks[calls[c].ref].interval > 0 ) =>
              tasks'[calls[c].ref].next_run = clock + tasks[calls[c].ref].interval]_vars

\* C6: a run-now (of a job of positive interval) whose function raised records last_run = completion time and
\* next_run = completion time + interval, as a successful one does.
C6_FailedRunNowAdvances ==
    [][\A c \in DOMAIN calls :
          (run_task_raise(c) /\ calls[c].ref # 0 /\ tasks[calls[c].ref].interval > 0) =>
          /\ tasks'[calls[c].ref].last_run = clock
          /\ tasks'[calls[c].ref].next_run = clock + tasks[calls[c].ref].interval]_vars

\* The first live entry of ts that is due at time t, or 0.
FirstDue(ts, t) ==
    IF \E i \in Live(ts) : ts[i].next_run <= t
    THEN CHOOSE i \in Live(ts) :
            /\ ts[i].next_run <= t
            /\ \A j \in Live(ts) : ts[j].next_run <= t => i <= j
    ELSE 0

\* C7: stop() and a following start() leave the registry as it is (every job, its
\* interval and its bookkeeping); start() creates a new loop task and keeps its
\* handle; and the first step of that task dispatches the first registered job whose
\* next_run has passed, and sleeps only when there is none.
C7_StopStartResumes ==
    [][ /\ (running /\ ~running') => tasks' = tasks
        /\ (~running /\ running') =>
              (tasks' = tasks /\ task_loop' = 1 /\ loops'[1] = NewLoop)
        /\ \A k \in DOMAIN loops : LoopBegin(k) =>
              IF FirstDue(tasks, clock) # 0
              THEN loops'[k].pc = "await" /\ loops'[k].ref = FirstDue(tasks, clock)
              ELSE loops'[k].pc = "sleep" ]_vars

\* C7 witness: after the stop() and a start(), the new loop task is executing a job
\* that had already run (its bookkeeping of before the stop is in the registry).
C7_Witness ==
    /\ running
    /\ loops[1].pc = "await"
    /\ loops[1].ref # 0
    /\ tasks[loops[1].ref].last_run # NoTime

\* Whether loop task record l was cancelled while it awaited a job function.
Aborted(l) == l.name # "" /\ (l.cancel = "thrown" \/ l.pc = "cancelled")

\* C8: a stop() never aborts a job execution in flight: no CancelledError is thrown
\* into a loop task that awaits a job function.
C8_InFlightRunsToCompletion == \A k \in DOMAIN loops : ~Aborted(loops[k])

\* C9: after stop(), and until a later start(), the scheduler loop starts no job
\* execution.
C9_NoDispatchAfterStop == [][\A k \in DOMAIN loops : Dispatches(k) => running]_vars

\* C10: when stop() has returned, the loop task has terminated and the handle is
\* cleared.
C10_StopClearsHandle ==
    ~running => (task_loop = NoLoop /\ \A k \in DOMAIN loops : loops[k].pc \notin Alive)

\* C11: start() on a scheduler that is running creates no loop task and changes
\* neither the running flag, the handle, the loop tasks nor the registry.
C11_StartIdempotent ==
    [][(running /\ start) =>
          (running' /\ task_loop' = task_loop /\ loops' = loops /\ tasks' = tasks)]_vars

\* C11 witness: the scheduler is running and its only loop task is executing a job
\* (a start() here must leave that task the only one).
C11_Witness ==
    /\ running
    /\ task_loop = 1
    /\ Len(loops) = 1
    /\ loops[1].pc = "await"

\* C12: stop() on a scheduler that is not running (never started, or stopped)
\* changes neither the running flag, the handle, the loop tasks nor the registry.
C12_StopWhenStopped ==
    [][\A by \in {0} \cup DOMAIN loops :
          (~running /\ stop(by)) => UNCHANGED <<running, task_loop, loops, tasks>>]_vars

\* C12 witness: the scheduler was started and stopped, with a job registered: the
\* handle still refers to the loop task, which has ended.
C12_Witness ==
    /\ ~running
    /\ task_loop # NoLoop
    /\ loops[1].pc = "cancelled"
    /\ Live(tasks) # {}

\* Whether every registered job has a positive interval.
PositiveIntervals == \A i \in Live(tasks) : tasks[i].interval > 0

\* C13: every add_task (of a positive interval) adds an entry and replaces none:
\* the registry grows by exactly one, also when the name was registered before.
C13_AddGrowsByOne ==
    [][\A n \in Names, i \in Intervals :
          (i > 0 /\ PositiveIntervals /\ add_task(n, i)) =>
              Used(tasks') = Used(tasks) + 1]_vars

\* C14: no job with a zero or negative interval is ever in the registry.
C14_NoNonPositiveInterval == \A i \in Live(tasks) : ~(tasks[i].interval <= 0)

\* Whether entry t is registered and has never been dispatched nor completed a run.
NeverRun(t) == t.live /\ t.last_run = NoTime /\ t.disp = NoTime

\* C15: add_task leaves the job with last_run unset and next_run = the registration
\* time; a job that has not run yet satisfies next_run <= now at every later time; a
\* tick that starts while such a job is registered dispatches it, or a due job
\* registered before it; and a tick does not end while such a job, due at the tick's
\* time, is still ahead of the scan.
C15_NewJobDueAtOnce ==
    /\ [][\A n \in Names, i \in Intervals : add_task(n, i) =>
              /\ Find(tasks', n) # 0
              /\ tasks'[Find(tasks', n)].last_run = NoTime
              /\ tasks'[Find(tasks', n)].next_run = clock]_vars
    /\ [](\A j \in Live(tasks) : NeverRun(tasks[j]) => tasks[j].next_run <= clock)
    /\ [][\A k \in DOMAIN loops : (running /\ (LoopBegin(k) \/ LoopWake(k))) =>
              \A j \in Live(tasks) : NeverRun(tasks[j]) =>
                  (loops'[k].pc = "await" /\ loops'[k].ref # 0 /\ loops'[k].ref <= j)]_vars
    /\ [][\A k \in DOMAIN loops : EndsTick(k) =>
              \A j \in Live(tasks) :
                  (j > loops[k].it.pos /\ NeverRun(tasks[j])) => tasks[j].next_run > loops[k].now]_vars

\* C15 witness: a job registered in the very minute of the tick (next_run = now),
\* and not the first of the registry, is being executed for the first time.
C15_Witness ==
    \E k \in DOMAIN loops :
        /\ loops[k].pc = "await"
        /\ Len(loops[k].ran) = 2
        /\ loops[k].ref # 0
        /\ tasks[loops[k].ref].last_run = NoTime
        /\ tasks[loops[k].ref].next_run = loops[k].now

\* C16: remove_task of a name that is not registered (never registered, or removed)
\* leaves the registry as it is: its size, its entries and their bookkeeping.
C16_RemoveUnknownIsNoOp ==
    [][\A n \in Names : (Find(tasks, n) = 0 /\ remove_task(n)) =>
          UNCHANGED <<tasks, loops, calls>>]_vars

\* C16 witness: a job was removed and another one, which has run, is registered
\* (a remove_task of the removed name is the claim's case).
C16_Witness ==
    /\ \E i \in DOMAIN tasks : ~tasks[i].live
    /\ \E j \in Live(tasks) : tasks[j].last_run # NoTime

\* C17: remove_task of a registered name removes that entry and no other, and every
\* execution a tick starts is of an entry that is in the registry when it starts:
\* none is of a removed job.
C17_RemoveExactlyThat ==
    /\ [][\A n \in Names : (Find(tasks, n) # 0 /\ remove_task(n)) =>
              /\ Find(tasks', n) = 0
              /\ Used(tasks') = Used(tasks) - 1
              /\ \A i \in DOMAIN tasks : i # Find(tasks, n) => tasks'[i] = tasks[i]]_vars
    /\ [][\A k \in DOMAIN loops : Dispatches(k) =>
              /\ loops'[k].ref \in Live(tasks) \cap Live(tasks')
              /\ tasks'[loops'[k].ref].name = loops'[k].name]_vars

\* C17 witness: after a removal, a tick that started later is executing another job.
C17_Witness ==
    /\ \E i \in DOMAIN tasks : ~tasks[i].live
    /\ \E k \in DOMAIN loops :
          /\ loops[k].pc = "await"
          /\ loops[k].ref \in Live(tasks)
          /\ loops[k].it.used = Used(tasks)

\* C18: jobs A (interval 1 minute) and B (interval 2 minutes) registered at the same
\* instant on a running scheduler: B has not run when 65 seconds have elapsed, that
\* is, the tick that wakes within a minute of the registration does not execute B.
C18_ScenarioCounts ==
    [][\A k \in DOMAIN loops : \A a, b \in Live(tasks) :
          ( /\ LoopWake(k)
            /\ tasks[a].interval = 1 /\ tasks[b].interval = 2
            /\ NeverRun(tasks[a]) /\ NeverRun(tasks[b])
            /\ tasks[a].next_run = tasks[b].next_run
            /\ clock - tasks[b].next_run <= 1 )
          => loops'[k].ref # b]_vars

\* C19: run_task of a name that is not registered returns None, starts no execution
\* and leaves the registry as it is.
C19_RunUnknownReturnsNone ==
    [][\A n \in Names : (Find(tasks, n) = 0 /\ run_task(n)) =>
          (ret' = "None" /\ calls' = calls /\ loops' = loops /\ tasks' = tasks)]_vars

\* C19 witness: a run_task of a removed name has returned None, another job being
\* registered.
C19_Witness ==
    /\ ret = "None"
    /\ calls = <<>>
    /\ Live(tasks) # {}
    /\ \E i \in DOMAIN tasks : ~tasks[i].live

\* C20: a run_task whose job function raised returns None to its caller.
C20_FailedRunNowReturnsNone ==
    [][\A c \in DOMAIN calls : (PositiveIntervals /\ run_task_raise(c)) => ret' = "None"]_vars

\* C21: run_task of a registered name starts exactly one execution, of the function
\* and arguments of the entry registered under the name, whatever the entry's
\* next_run and whether or not the scheduler is running; when the function returns,
\* its result is what run_task returns.
C21_RunNowReturnsResult ==
    /\ [][\A n \in Names : (Find(tasks, n) # 0 /\ run_task(n)) =>
              (calls' = Append(calls, [ref |-> Find(tasks, n)]) /\ tasks' = tasks)]_vars
    /\ [][\A c \in DOMAIN calls : run_task_return(c) =>
              (ret' = "result" /\ Len(calls') = Len(calls) - 1)]_vars

\* C21 witness: on a stopped scheduler a run-now has returned the function's result,
\* and a further run-now of a job that is not due is executing its function.
C21_Witness ==
    /\ ~running
    /\ ret = "result"
    /\ calls # <<>>
    /\ calls[1].ref # 0
    /\ tasks[calls[1].ref].next_run > clock

\* C22: a job that is due in a tick does not wait for another job of the tick: no
\* due job is still undispatched, behind the iterator, while the job dispatched
\* before it has been executing for a minute or more.
C22_JobsDoNotBlock ==
    \A k \in DOMAIN loops :
        ( /\ PositiveIntervals
          /\ loops[k].pc = "await" /\ loops[k].cancel = "none"
          /\ clock > loops[k].now ) =>
            \A j \in Live(tasks) : j > loops[k].it.pos => tasks[j].next_run > loops[k].now

\* C23: at most one execution of a job's function is in flight: no run_task call is
\* executing the function of the entry a loop task is executing.
C23_SingleFlight ==
    \A k \in DOMAIN loops : \A c \in DOMAIN calls :
        (PositiveIntervals /\ loops[k].pc = "await" /\ loops[k].cancel # "thrown" /\ loops[k].ref # 0) =>
            calls[c].ref # loops[k].ref

\* C24: when the function of a scheduled dispatch (of a job of positive interval)
\* returns, last_run is the time of the return and next_run that time + interval.
C24_CompletionTimeRecorded ==
    [][\A k \in DOMAIN loops :
          (JobReturn(k) /\ loops[k].ref # 0 /\ tasks[loops[k].ref].interval > 0) =>
          /\ tasks'[loops[k].ref].last_run = clock
          /\ tasks'[loops[k].ref].next_run = clock + tasks[loops[k].ref].interval]_vars

\* C25: a registered job whose last_run is set has next_run = last_run + interval;
\* one whose last_run is unset keeps the next_run its registration gave it.
C25_NextRunFollowsLastRun ==
    /\ [](\A i \in Live(tasks) :
            tasks[i].last_run # NoTime => tasks[i].next_run = tasks[i].last_run + tasks[i].interval)
    /\ [][\A i \in Live(tasks') : tasks'[i].last_run = NoTime =>
              \/ /\ i \in Live(tasks)
                 /\ tasks[i].last_run = NoTime
                 /\ tasks'[i].next_run = tasks[i].next_run
              \/ /\ tasks'[i].next_run = clock
                 /\ \E n \in Names, iv \in Intervals : add_task(n, iv) /\ Find(tasks', n) = i]_vars

\* C25 witness: a job of positive interval that a tick dispatched has since completed
\* a run-now (its last_run is later than the dispatch).
C25_Witness ==
    \E i \in Live(tasks) :
        /\ tasks[i].interval > 0
        /\ tasks[i].disp # NoTime
        /\ tasks[i].last_run > tasks[i].disp

\* What add_task fixes of an entry, and what the runs write.
Identity(t) == <<t.name, t.interval, t.live>>

Book(t) == <<t.last_run, t.next_run>>

\* C26: a step that is not an add_task or a remove_task leaves the set of entries
\* and each entry's name and interval as they are, and changes last_run/next_run of
\* no entry but the one whose execution (scheduled or run-now) completes in the step.
C26_RegistryFrame ==
    [][ \/ /\ Len(tasks') = Len(tasks)
           /\ \A i \in DOMAIN tasks :
                 /\ Identity(tasks'[i]) = Identity(tasks[i])
                 /\ Book(tasks'[i]) # Book(tasks[i]) =>
                       \/ \E k \in DOMAIN loops :
                             loops[k].ref = i /\ (JobReturn(k) \/ JobRaise(k))
                       \/ \E c \in DOMAIN calls :
                             calls[c].ref = i /\ (run_task_return(c) \/ run_task_raise(c))
        \/ \E n \in Names : remove_task(n)
        \/ \E n \in Names, iv \in Intervals : add_task(n, iv) ]_vars

\* C26 witness: after ticks, a failed run-now and a stop(), a job that has run is
\* still registered.
C26_Witness ==
    /\ ~running
    /\ ret = "error"
    /\ \E i \in Live(tasks) : tasks[i].last_run # NoTime /\ tasks[i].disp # NoTime

\* A step of loop task k in a tick (from the tick's start, or after a job of it).
TickStep(k) == LoopBegin(k) \/ LoopWake(k) \/ JobReturn(k) \/ JobRaise(k)

\* The time the tick of that step has read, and where its iterator stands.
TickNow(k) == IF loops[k].pc = "await" THEN loops[k].now ELSE clock

TickPos(k) == IF loops[k].pc = "await" THEN loops[k].it.pos ELSE 0

\* C27: in a tick that has read `now`, each execution started is of an entry with
\* next_run <= now that comes after the entries already considered (insertion order,
\* no entry twice), no entry with next_run <= now is passed over on the way, and the
\* tick ends only when no entry with next_run <= now is left ahead.
C27_TickRunsExactlyDue ==
    /\ [][\A k \in DOMAIN loops : Dispatches(k) =>
              /\ loops'[k].ref > TickPos(k)
              /\ tasks'[loops'[k].ref].next_run <= TickNow(k)
              /\ Len(loops'[k].ran) = Cardinality(Range(loops'[k].ran))
              /\ \A j \in Live(tasks') :
                    (TickPos(k) < j /\ j < loops'[k].ref) => tasks'[j].next_run > TickNow(k)]_vars
    /\ [][\A k \in DOMAIN loops :
              (running /\ TickStep(k) /\ k \in DOMAIN loops' /\ loops'[k].pc = "sleep") =>
              \A j \in Live(tasks') : TickPos(k) < j => tasks'[j].next_run > TickNow(k)]_vars

\* C27 witness: a tick has passed over the first job, which is not due, and is
\* executing the second one.
C27_Witness ==
    \E k \in DOMAIN loops :
        /\ loops[k].pc = "await"
        /\ loops[k].ref = 2
        /\ Len(loops[k].ran) = 1
        /\ tasks[1].live
        /\ tasks[1].next_run > loops[k].now

\* The loop tasks that are live: created, not finished, and not cancelled.
LiveLoops == {k \in DOMAIN loops : loops[k].pc \in Alive /\ loops[k].cancel = "none"}

\* C28: the scheduler is running if and only if exactly one loop task is live
\* (stated for the registries that hold jobs of positive interval and no removal).
C28_RunningIffOneLiveLoop ==
    (PositiveIntervals /\ Used(tasks) = Len(tasks)) => (running <=> Cardinality(LiveLoops) = 1)

\* C29: the bookkeeping of an execution whose job was removed or replaced while it
\* was in flight changes no entry of the registry: a removed job stays removed and
\* the replacing entry keeps last_run unset and its own registration's next_run.
\* And an execution in flight is one of those as soon as its job is removed or
\* replaced: no execution refers to a removed entry, nor to an entry that has just
\* been registered.
C29_NoResurrection ==
    /\ [][\A k \in DOMAIN loops : (loops[k].ref = 0 /\ JobReturn(k)) =>
              /\ Len(tasks') = Len(tasks)
              /\ \A i \in DOMAIN tasks :
                    Identity(tasks'[i]) = Identity(tasks[i]) /\ Book(tasks'[i]) = Book(tasks[i])]_vars
    /\ [][\A c \in DOMAIN calls : (calls[c].ref = 0 /\ run_task_return(c)) => tasks' = tasks]_vars
    /\ [](/\ \A k \in DOMAIN loops : loops[k].ref \in Live(tasks) \cup {0}
          /\ \A c \in DOMAIN calls : calls[c].ref \in Live(tasks) \cup {0})
    /\ [][\A i \in Live(tasks') :
              ( /\ NeverRun(tasks'[i])
                /\ tasks'[i].next_run = clock
                /\ i \in DOMAIN tasks => tasks[i] # tasks'[i] ) =>
              /\ \A k \in DOMAIN loops' : loops'[k].ref # i
              /\ \A c \in DOMAIN calls' : calls'[c].ref # i]_vars

\* C29 witness: a scheduled execution is in flight whose job has been replaced by a
\* new registration under the same name.
C29_Witness ==
    \E k \in DOMAIN loops :
        /\ loops[k].pc = "await"
        /\ loops[k].cancel = "none"
        /\ loops[k].ref = 0
        /\ Find(tasks, loops[k].name) # 0

\* C30: over a job's lifetime its last_run, once set, and its next_run never
\* decrease.
C30_BookkeepingMonotone ==
    [][\A i \in DOMAIN tasks :
          ( /\ PositiveIntervals
            /\ tasks[i].live /\ tasks'[i].live
            /\ tasks[i].last_run # NoTime /\ tasks'[i].last_run # NoTime )
          => (tasks'[i].last_run >= tasks[i].last_run /\ tasks'[i].next_run >= tasks[i].next_run)]_vars

====
